---- MODULE Spec2Model ----
(***************************************************************************)
(* Grid-quantized actor/solid physics of bevy-platformer.                  *)
(*                                                                         *)
(* Numbers.  An f32 quantity (position, remainder, velocity, acceleration, *)
(* per-tick displacement) is held as an integer count of "sub-units":      *)
(* 1 world unit = Sub sub-units, so the value 0.5 is Sub/2 sub-units.      *)
(* i32 quantities (collider offset and half size, rounded positions, step  *)
(* counts) are whole units.  The frame time is dt = 1/hz seconds; every    *)
(* velocity the model writes is a multiple of hz, so velocity*dt and       *)
(* distance/dt are exact, as they are in f32 for such values.              *)
(***************************************************************************)
EXTENDS Integers, Sequences, FiniteSets, TLC

VARIABLES
    body,       \* the bodies: a sequence of records, in query iteration order
    hz,         \* 1 / time.delta_seconds()
    stage,      \* the stage of the tick that runs next, e.g. "PreStep" or "Step"
    start,      \* history: the bodies as they were when the last move_actor began
    swept,      \* history: TRUE in the state a move_actor pass has just produced
    collision_result, \* per body: the attached CollisionResult, or None
    arg,        \* function probe: the arguments of the call
    ret,        \* function probe: what the call returned, or its local variables
    transform,  \* per body: the translation of its Transform, <<x, y, z>>
    player,     \* per body: its PlayerWalkParams and PlayerJumpParams, or None
    ran,        \* the systems that have run in the current tick, in order
    script      \* free run: the displacements the run is given, and its history

vars == <<body, hz, stage, start, swept, collision_result, arg, ret,
          transform, player, ran, script>>

\* The variables the sweep and the collision probes leave alone.
pipeline_vars == <<transform, player, ran, script>>

\* ------------------------------------------------------------------ bounds
Sub == 2
MaxHz == 2
BigMove == 10
ReachX == 3
ReachY == 1
MaxHalf == 2

\* ------------------------------------------------------------ arithmetic
Abs(n) == IF n < 0 THEN -n ELSE n

\* i32::signum
signum(n) == IF n > 0 THEN 1 ELSE IF n < 0 THEN -1 ELSE 0

\* f32::round followed by `as i32`: nearest whole unit, halves away from zero.
\* Takes sub-units, gives whole units.
round(r) == signum(r) * ((2 * Abs(r) + Sub) \div (2 * Sub))

\* IVec2::new(v.x.round() as i32, v.y.round() as i32)
round_vec(v) == <<round(v[1]), round(v[2])>>

\* whole units as sub-units
U(n) == n * Sub

\* v * time.delta_seconds() and d / time.delta_seconds()
times_dt(v) == v \div hz
over_dt(d) == d * hz

\* Option<T>: None is the empty sequence, Some(v) is <<v>>.
None == <<>>
Some(v) == <<v>>

\* ------------------------------------------------------------------ AABB
AABB(ox, oy, hx, hy) == [position |-> <<ox, oy>>, half_size |-> <<hx, hy>>]

min(self) == <<self.position[1] - self.half_size[1], self.position[2] - self.half_size[2]>>

max(self) == <<self.position[1] + self.half_size[1], self.position[2] + self.half_size[2]>>

adjusted_position(self, pos) ==
    [position |-> <<self.position[1] + pos[1], self.position[2] + pos[2]>>,
     half_size |-> self.half_size]

\* Mutant: the first comparison lets a coinciding edge count as overlap.
interescts_first_closed(box1, box2) ==
    /\ min(box1)[1] <= max(box2)[1]
    /\ max(box1)[1] > min(box2)[1]
    /\ min(box1)[2] < max(box2)[2]
    /\ max(box1)[2] > min(box2)[2]

\* Mutant: every comparison lets a coinciding edge count as overlap.
interescts_closed(box1, box2) ==
    /\ min(box1)[1] <= max(box2)[1]
    /\ max(box1)[1] >= min(box2)[1]
    /\ min(box1)[2] <= max(box2)[2]
    /\ max(box1)[2] >= min(box2)[2]

\* Mutant: a box without width or height overlaps nothing.
interescts_nothing_when_flat(box1, box2) ==
    /\ box1.half_size[1] > 0 /\ box1.half_size[2] > 0
    /\ box2.half_size[1] > 0 /\ box2.half_size[2] > 0
    /\ min(box1)[1] < max(box2)[1]
    /\ max(box1)[1] > min(box2)[1]
    /\ min(box1)[2] < max(box2)[2]
    /\ max(box1)[2] > min(box2)[2]

interescts(box1, box2) ==
    /\ min(box1)[1] < max(box2)[1]
    /\ max(box1)[1] > min(box2)[1]
    /\ min(box1)[2] < max(box2)[2]
    /\ max(box1)[2] > min(box2)[2]

\* The box check_for_collision tests for a collider at a position: the position is
\* rounded to whole units first.
grid_box(collider, position) == adjusted_position(collider, round_vec(position))

\* Mutant: the scan returns after its first iteration.
check_for_collision_first_only(collider, position, colliders) ==
    /\ Len(colliders) > 0
    /\ interescts(grid_box(collider, position),
                  grid_box(colliders[1][2], colliders[1][1]))

\* physics/mod.rs: does the collider at `position` overlap any collider of the snapshot?
\* colliders is a sequence of <<position, AABB>>.
check_for_collision(collider, position, colliders) ==
    \E i \in DOMAIN colliders :
        interescts(grid_box(collider, position),
                   grid_box(colliders[i][2], colliders[i][1]))

\* physics/collision.rs: the same scan, returning the contact it found: the first
\* collider of the snapshot that overlaps, as a Collision record, or None.
RECURSIVE scan_for_collision(_, _, _, _)
scan_for_collision(collider, position, colliders, i) ==
    IF i > Len(colliders) THEN None
    ELSE LET other_position == colliders[i][1]
             other_collider == colliders[i][2]
         IN  IF interescts(grid_box(collider, position),
                           grid_box(other_collider, other_position))
             THEN Some([position |-> other_position, collider |-> collider])
             ELSE scan_for_collision(collider, position, colliders, i + 1)

\* Mutant: the scan runs from the end of the snapshot, the last overlapping collider
\* wins.
RECURSIVE scan_back_for_collision(_, _, _, _)
scan_back_for_collision(collider, position, colliders, i) ==
    IF i < 1 THEN None
    ELSE IF interescts(grid_box(collider, position),
                       grid_box(colliders[i][2], colliders[i][1]))
         THEN Some([position |-> colliders[i][1], collider |-> collider])
         ELSE scan_back_for_collision(collider, position, colliders, i - 1)

check_for_collision_opt_last(collider, position, colliders) ==
    scan_back_for_collision(collider, position, colliders, Len(colliders))

check_for_collision_opt(collider, position, colliders) ==
    scan_for_collision(collider, position, colliders, 1)

\* ------------------------------------------------------------- the sweep
\* Mutant: the sign of the steps is taken to be +1.
loop_sign_positive(movement) == 1

\* `let sign = movement.signum()` in move_x and move_y.
loop_sign(movement) == signum(movement)

\* Mutant: the loop of move_x starts by stepping back one unit.
walk_x_recoiling(position, movement, collider, solid_colliders) ==
    IF movement = 0 THEN position
    ELSE LET sign == signum(movement)
             back == <<position[1] - U(sign), position[2]>>
         IN  IF ~check_for_collision(collider, back, solid_colliders)
             THEN back
             ELSE position

\* The `while movement != 0` loop of move_x: the position the loop ends at.
RECURSIVE walk_x(_, _, _, _)
walk_x(position, movement, collider, solid_colliders) ==
    IF movement = 0 THEN position
    ELSE LET sign == loop_sign(movement)
             next == <<position[1] + U(sign), position[2]>>
         IN  IF ~check_for_collision(collider, next, solid_colliders)
             THEN walk_x(next, movement - sign, collider, solid_colliders)
             ELSE position

\* Mutant: the steps a stopped sweep did not take are put back into the remainder.
move_x_restoring(move_amount, position, remainder, collider, solid_colliders) ==
    LET r == remainder[1] + move_amount
        movement == round(r)
        end == walk_x(position, movement, collider, solid_colliders)
    IN  [position |-> end,
         remainder |-> <<r - (end[1] - position[1]), remainder[2]>>]

\* Mutant: whatever is left of the remainder after a step is thrown away.
move_x_dropping_remainder(move_amount, position, remainder, collider, solid_colliders) ==
    LET r == remainder[1] + move_amount
        movement == round(r)
    IN  IF movement # 0
        THEN [position |-> walk_x(position, movement, collider, solid_colliders),
              remainder |-> <<0, remainder[2]>>]
        ELSE [position |-> position, remainder |-> <<r, remainder[2]>>]

move_x(move_amount, position, remainder, collider, solid_colliders) ==
    LET r == remainder[1] + move_amount
        movement == round(r)
    IN  IF movement # 0
        THEN [position |-> walk_x(position, movement, collider, solid_colliders),
              remainder |-> <<r - U(movement), remainder[2]>>]
        ELSE [position |-> position, remainder |-> <<r, remainder[2]>>]

RECURSIVE walk_y(_, _, _, _)
walk_y(position, movement, collider, solid_colliders) ==
    IF movement = 0 THEN position
    ELSE LET sign == loop_sign(movement)
             next == <<position[1], position[2] + U(sign)>>
         IN  IF ~check_for_collision(collider, next, solid_colliders)
             THEN walk_y(next, movement - sign, collider, solid_colliders)
             ELSE position

\* Mutant: the steps a stopped Y sweep did not take are put back into the remainder.
move_y_restoring(move_amount, position, remainder, collider, solid_colliders) ==
    LET r == remainder[2] + move_amount
        movement == round(r)
        end == walk_y(position, movement, collider, solid_colliders)
    IN  [position |-> end,
         remainder |-> <<remainder[1], r - (end[2] - position[2])>>]

\* Mutant: only upward movement is walked.
move_y_upward_only(move_amount, position, remainder, collider, solid_colliders) ==
    LET r == remainder[2] + move_amount
        movement == round(r)
    IN  IF movement > 0
        THEN [position |-> walk_y(position, movement, collider, solid_colliders),
              remainder |-> <<remainder[1], r - U(movement)>>]
        ELSE [position |-> position, remainder |-> <<remainder[1], r>>]

move_y(move_amount, position, remainder, collider, solid_colliders) ==
    LET r == remainder[2] + move_amount
        movement == round(r)
    IN  IF movement # 0
        THEN [position |-> walk_y(position, movement, collider, solid_colliders),
              remainder |-> <<remainder[1], r - U(movement)>>]
        ELSE [position |-> position, remainder |-> <<remainder[1], r>>]

\* Mutant: the snapshot holds every body, Actors too.
RECURSIVE snapshot_of_all(_, _)
snapshot_of_all(bodies, i) ==
    IF i > Len(bodies) THEN <<>>
    ELSE <<<<bodies[i].position, bodies[i].collider>>>> \o snapshot_of_all(bodies, i + 1)

\* The snapshot move_actor takes: <<position, collider>> of every Solid, in query order.
RECURSIVE snapshot(_, _)
snapshot(bodies, i) ==
    IF i > Len(bodies) THEN <<>>
    ELSE IF bodies[i].body_type = "Solid"
         THEN <<<<bodies[i].position, bodies[i].collider>>>> \o snapshot(bodies, i + 1)
         ELSE snapshot(bodies, i + 1)

\* Mutant: only the first Solid of the query makes it into the snapshot.
solid_colliders_first_only(bodies) == SubSeq(snapshot(bodies, 1), 1, 1)

solid_colliders_of(bodies) == snapshot(bodies, 1)

\* Mutant: the Y sweep runs before the X sweep.
sweep_actor_y_first(b, solid_colliders) ==
    LET move_amount == <<times_dt(b.velocity[1]), times_dt(b.velocity[2])>>
        start_position == b.position
        my == move_y(move_amount[2], b.position, b.remainder, b.collider, solid_colliders)
        mx == move_x(move_amount[1], my.position, my.remainder, b.collider, solid_colliders)
    IN  [b EXCEPT !.position = mx.position,
                  !.remainder = mx.remainder,
                  !.velocity = <<over_dt(mx.position[1] - start_position[1]),
                                 over_dt(mx.position[2] - start_position[2])>>,
                  !.acceleration = <<0, 0>>]

\* Mutant: the velocity is left as requested instead of recomputed.
sweep_actor_keeps_velocity(b, solid_colliders) ==
    LET move_amount == <<times_dt(b.velocity[1]), times_dt(b.velocity[2])>>
        mx == move_x(move_amount[1], b.position, b.remainder, b.collider, solid_colliders)
        my == move_y(move_amount[2], mx.position, mx.remainder, b.collider, solid_colliders)
    IN  [b EXCEPT !.position = my.position,
                  !.remainder = my.remainder,
                  !.acceleration = <<0, 0>>]

\* Mutant: the acceleration is left as the PreStep systems wrote it.
sweep_actor_keeps_acceleration(b, solid_colliders) ==
    LET move_amount == <<times_dt(b.velocity[1]), times_dt(b.velocity[2])>>
        start_position == b.position
        mx == move_x(move_amount[1], b.position, b.remainder, b.collider, solid_colliders)
        my == move_y(move_amount[2], mx.position, mx.remainder, b.collider, solid_colliders)
    IN  [b EXCEPT !.position = my.position,
                  !.remainder = my.remainder,
                  !.velocity = <<over_dt(my.position[1] - start_position[1]),
                                 over_dt(my.position[2] - start_position[2])>>]

\* The body of move_actor's loop for one Actor.
sweep_actor(b, solid_colliders) ==
    LET move_amount == <<times_dt(b.velocity[1]), times_dt(b.velocity[2])>>
        start_position == b.position
        mx == move_x(move_amount[1], b.position, b.remainder, b.collider, solid_colliders)
        my == move_y(move_amount[2], mx.position, mx.remainder, b.collider, solid_colliders)
    IN  [b EXCEPT !.position = my.position,
                  !.remainder = my.remainder,
                  !.velocity = <<over_dt(my.position[1] - start_position[1]),
                                 over_dt(my.position[2] - start_position[2])>>,
                  !.acceleration = <<0, 0>>]

\* Mutant: the body_type test is missing, every body is swept.
moved_all(bodies) ==
    LET solid_colliders == solid_colliders_of(bodies)
    IN  [i \in DOMAIN bodies |-> sweep_actor(bodies[i], solid_colliders)]

\* What one move_actor pass makes of the bodies.
moved(bodies) ==
    LET solid_colliders == solid_colliders_of(bodies)
    IN  [i \in DOMAIN bodies |->
            IF bodies[i].body_type = "Actor"
            THEN sweep_actor(bodies[i], solid_colliders)
            ELSE bodies[i]]

\* ----------------------------------------------------------------- bodies
Actor(p, c) ==
    [body_type |-> "Actor", position |-> p, velocity |-> <<0, 0>>,
     acceleration |-> <<0, 0>>, remainder |-> <<0, 0>>, collider |-> c]

Solid(p, c) ==
    [body_type |-> "Solid", position |-> p, velocity |-> <<U(1), 0>>,
     acceleration |-> <<0, -1>>, remainder |-> <<0, 0>>, collider |-> c]

UnitBox == AABB(0, 0, 1, 1)

\* The levels the model starts from (positions in sub-units).
Scenes == {
    \* an Actor at x=0 and a wall at x=5, both of half extent 1, on one row
    << Actor(<<0, 0>>, UnitBox), Solid(<<U(5), 0>>, UnitBox) >>,
    \* a Solid whose corner touches the Actor's corner
    << Actor(<<0, 0>>, UnitBox), Solid(<<U(2), U(2)>>, UnitBox) >>,
    \* an Actor at a fractional x to the right of a Solid
    << Actor(<<U(3) - 1, 0>>, UnitBox), Solid(<<0, 0>>, UnitBox) >>,
    \* a floor and a wall at fractional, negative positions; an offset collider
    << Solid(<<0, 1 - U(3)>>, AABB(0, 0, 4, 1)),
       Actor(<<-1, 0>>, AABB(1, 0, 1, 1)),
       Solid(<<1 - U(3), 0>>, AABB(0, 0, 1, 2)) >>,
    \* an Actor spawned inside a Solid
    << Actor(<<0, 0>>, UnitBox), Solid(<<U(1), 0>>, UnitBox) >>
}

\* Per-tick displacements (sub-units) the PreStep systems ask for.
XDisp == {-U(BigMove), -U(1), -1, 0, 1, U(1), U(BigMove)}
YDisp == {-U(1), -1, 0, 1, U(1)}

\* What PreStep systems write to an Actor: a velocity, and now and then an acceleration.
Inputs ==
    {[velocity |-> <<over_dt(dx), over_dt(dy)>>, acceleration |-> <<0, 0>>] :
        dx \in XDisp, dy \in YDisp}
    \cup {[velocity |-> <<0, 0>>, acceleration |-> <<U(1), -U(1)>>],
          [velocity |-> <<over_dt(U(1)), 0>>, acceleration |-> <<0, -1>>]}

InWorld(bodies) ==
    \A i \in DOMAIN bodies :
        /\ Abs(bodies[i].position[1]) <= U(ReachX + 2)
        /\ bodies[i].body_type = "Actor" =>
              /\ Abs(bodies[i].position[1]) <= U(ReachX)
              /\ Abs(bodies[i].position[2]) <= U(ReachY)

Actors == {i \in DOMAIN body : body[i].body_type = "Actor"}
Solids == {i \in DOMAIN body : body[i].body_type = "Solid"}

\* ---------------------------------------------------------------- actions
Init ==
    /\ body \in Scenes
    /\ hz \in 1..MaxHz
    /\ stage = "PreStep"
    /\ start = body
    /\ swept = FALSE
    /\ collision_result = [i \in DOMAIN body |-> None]
    /\ arg = None
    /\ ret = None
    /\ transform = <<>>
    /\ player = <<>>
    /\ ran = <<>>
    /\ script = None

\* PreStep stage: systems outside the physics core write an Actor's velocity and
\* acceleration.
PreStep ==
    /\ stage = "PreStep"
    /\ \E a \in Actors, in \in Inputs :
          body' = [body EXCEPT ![a].velocity = in.velocity,
                               ![a].acceleration = in.acceleration]
    /\ stage' = "Step"
    /\ start' = body'
    /\ swept' = FALSE
    /\ UNCHANGED <<hz, collision_result, arg, ret, pipeline_vars>>

\* PreStep stage in a tick in which no system writes anything.
PreStepIdle ==
    /\ stage = "PreStep"
    /\ stage' = "Step"
    /\ start' = body
    /\ swept' = FALSE
    /\ UNCHANGED <<body, hz, collision_result, arg, ret, pipeline_vars>>

\* Step stage: move_actor.
move_actor ==
    /\ stage = "Step"
    /\ InWorld(moved(body))
    /\ body' = moved(body)
    /\ start' = body
    /\ swept' = TRUE
    /\ stage' = "PreStep"
    /\ UNCHANGED <<hz, collision_result, arg, ret, pipeline_vars>>

Next == PreStep \/ PreStepIdle \/ move_actor

Spec == Init /\ [][Next]_vars

\* ------------------------------------------------- the collision functions
\* The pure functions of physics/collision.rs, called on inputs drawn from small sets.
ProbeColliders ==
    {AABB(ox, 0, hx, hy) : ox \in {0, 1}, hx \in 0..MaxHalf, hy \in 0..MaxHalf}

ProbePositions == {<<x, y>> : x \in (-U(2))..U(2), y \in {0, U(1)}}

ProbeSolids ==
    { <<<<0, 0>>, AABB(0, 0, 1, 1)>>,
      <<<<U(2), 0>>, AABB(0, 0, MaxHalf, 1)>>,
      <<<<-1, U(1)>>, AABB(-1, 0, 1, 0)>> }

ProbeSnapshots ==
    {<<s>> : s \in ProbeSolids} \cup {<<s, t>> : s \in ProbeSolids, t \in ProbeSolids}

InitCollision ==
    /\ arg \in [collider : ProbeColliders, position : ProbePositions,
                colliders : ProbeSnapshots]
    /\ ret = None
    /\ body = <<>>
    /\ hz = 1
    /\ stage = "Probe"
    /\ start = <<>>
    /\ swept = FALSE
    /\ collision_result = <<>>
    /\ transform = <<>>
    /\ player = <<>>
    /\ ran = <<>>
    /\ script = None

\* The two boxes a call of AABB::interescts on snapshot entry i is given.
probe_box == grid_box(arg.collider, arg.position)
other_box(i) == grid_box(arg.colliders[i][2], arg.colliders[i][1])

call_interescts ==
    /\ ret = None
    /\ \E i \in DOMAIN arg.colliders :
          ret' = Some([op |-> "interescts", i |-> i,
                       val |-> interescts(probe_box, other_box(i)),
                       rev |-> interescts(other_box(i), probe_box)])
    /\ UNCHANGED <<body, hz, stage, start, swept, collision_result, arg, pipeline_vars>>

call_check_for_collision ==
    /\ ret = None
    /\ ret' = Some([op |-> "check_for_collision",
                    val |-> check_for_collision_opt(arg.collider, arg.position,
                                                    arg.colliders)])
    /\ UNCHANGED <<body, hz, stage, start, swept, collision_result, arg, pipeline_vars>>

NextCollision == call_interescts \/ call_check_for_collision

SpecCollision == InitCollision /\ [][NextCollision]_vars

\* ------------------------------------------------- vocabulary of the claims
\* The world box of a body, in sub-units: position + collider offset +/- half size.
world_box(b) ==
    [position |-> <<b.position[1] + U(b.collider.position[1]),
                    b.position[2] + U(b.collider.position[2])>>,
     half_size |-> <<U(b.collider.half_size[1]), U(b.collider.half_size[2])>>]

\* No Actor's world box overlaps a Solid's world box.
NoWorldOverlap(bodies) ==
    \A a \in DOMAIN bodies, s \in DOMAIN bodies :
        (bodies[a].body_type = "Actor" /\ bodies[s].body_type = "Solid")
            => ~interescts(world_box(bodies[a]), world_box(bodies[s]))

\* The same with every position rounded to whole units, as the sweep sees the boxes.
NoGridOverlap(bodies) ==
    \A a \in DOMAIN bodies, s \in DOMAIN bodies :
        (bodies[a].body_type = "Actor" /\ bodies[s].body_type = "Solid")
            => ~interescts(grid_box(bodies[a].collider, bodies[a].position),
                           grid_box(bodies[s].collider, bodies[s].position))

\* The unit steps the last sweep of body a asked for, and those it committed.
AskedX(a) == round(start[a].remainder[1] + times_dt(start[a].velocity[1]))
AskedY(a) == round(start[a].remainder[2] + times_dt(start[a].velocity[2]))
WentX(a) == (body[a].position[1] - start[a].position[1]) \div Sub
WentY(a) == (body[a].position[2] - start[a].position[2]) \div Sub
BlockedX(a) == WentX(a) # AskedX(a)
BlockedY(a) == WentY(a) # AskedY(a)
Fractional(p) == p[1] % Sub # 0 \/ p[2] % Sub # 0

\* The positions the last sweep of body a committed a unit step to: along x at the
\* starting y, then along y at the final x.
CommittedSteps(a) ==
    {<<start[a].position[1] + U(k * signum(WentX(a))), start[a].position[2]>> :
        k \in 1..Abs(WentX(a))}
    \cup
    {<<body[a].position[1], start[a].position[2] + U(k * signum(WentY(a)))>> :
        k \in 1..Abs(WentY(a))}

\* ------------------------------------------------------------ the free run
\* One Actor is given the same displacement per tick for t ticks and then the
\* opposite displacement for t ticks.
MaxT == 3

\* The Actor alone with a Solid out of its reach, at a whole, a fractional and a
\* negative position; and the Actor with a Solid two units to its right.
FreeScenes == {
    << Actor(<<0, 0>>, UnitBox), Solid(<<0, U(ReachY + 4)>>, UnitBox) >>,
    << Solid(<<0, -U(ReachY + 4)>>, UnitBox), Actor(<<-1, -U(1)>>, UnitBox) >>,
    << Actor(<<-U(1), 0>>, UnitBox), Solid(<<U(3), 0>>, UnitBox) >>
}

\* Remainders a body can be left with by earlier sweeps (at most half a unit).
FreeRemainders == {<<0, 0>>, <<1, 0>>, <<-1, 1>>}

\* Displacements per tick, in sub-units: whole units and fractions of a unit.
FreeDisp ==
    {<<dx, dy>> : dx \in {-U(1), -1, 0, 1, U(1)}, dy \in {-U(1), -1, 0, 1, U(1)}}

TheActor == CHOOSE a \in DOMAIN body : body[a].body_type = "Actor"

InitFree ==
    /\ \E scene \in FreeScenes, r \in FreeRemainders :
          body = [i \in DOMAIN scene |->
                     IF scene[i].body_type = "Actor"
                     THEN [scene[i] EXCEPT !.remainder = r]
                     ELSE scene[i]]
    /\ hz \in 1..MaxHz
    /\ stage = "PreStep"
    /\ start = body
    /\ swept = FALSE
    /\ collision_result = [i \in DOMAIN body |-> None]
    /\ arg = None
    /\ ret = None
    /\ transform = <<>>
    /\ player = <<>>
    /\ ran = <<>>
    /\ \E v \in FreeDisp, t \in 1..MaxT :
          script = Some([v |-> v, t |-> t, n |-> 0, origin |-> body[TheActor],
                         given |-> <<0, 0>>, unblocked |-> TRUE])

\* PreStep stage of the free run: a system writes the velocity of this tick, +v/dt
\* in the first t ticks and -v/dt in the next t; the history notes what was given
\* and whether the sweep of the tick before committed all it was asked for.
free_pre_step ==
    /\ stage = "PreStep"
    /\ script # None
    /\ script[1].n < 2 * script[1].t
    /\ LET s == script[1]
           d == IF s.n < s.t THEN s.v ELSE <<-s.v[1], -s.v[2]>>
       IN  /\ body' = [body EXCEPT ![TheActor].velocity = <<over_dt(d[1]), over_dt(d[2])>>]
           /\ script' = Some([s EXCEPT
                  !.n = s.n + 1,
                  !.given = <<s.given[1] + d[1], s.given[2] + d[2]>>,
                  !.unblocked = s.unblocked /\ (swept => ~BlockedX(TheActor) /\ ~BlockedY(TheActor))])
    /\ stage' = "Step"
    /\ start' = body'
    /\ swept' = FALSE
    /\ UNCHANGED <<hz, collision_result, arg, ret, transform, player, ran>>

NextFree == free_pre_step \/ move_actor

SpecFree == InitFree /\ [][NextFree]_vars

\* -------------------------------------------------------------- the corridor
\* One Actor and one Solid on the same row; the Actor is sent along x by
\* displacements of every size, from positions with and without a fractional part
\* on both sides of the Solid.
CorridorScenes ==
    {<< Actor(<<x, 0>>, AABB(0, 0, ha, 1)), Solid(<<sx, 0>>, AABB(0, 0, hs, 1)) >> :
        x \in (-U(ReachX))..U(ReachX), ha \in {0, 1}, sx \in {-1, 0}, hs \in {1, MaxHalf}}

CorridorDisp == {-U(BigMove), -U(3), -U(1), -1, 1, U(1), U(3), U(BigMove)}

InitCorridor ==
    /\ body \in CorridorScenes
    /\ hz \in 1..MaxHz
    /\ stage = "PreStep"
    /\ start = body
    /\ swept = FALSE
    /\ collision_result = [i \in DOMAIN body |-> None]
    /\ arg = None
    /\ ret = None
    /\ transform = <<>>
    /\ player = <<>>
    /\ ran = <<>>
    /\ script = None

\* PreStep stage in the corridor: a system writes the Actor's x velocity.
corridor_pre_step ==
    /\ stage = "PreStep"
    /\ \E dx \in CorridorDisp :
          body' = [body EXCEPT ![TheActor].velocity = <<over_dt(dx), 0>>]
    /\ stage' = "Step"
    /\ start' = body'
    /\ swept' = FALSE
    /\ UNCHANGED <<hz, collision_result, arg, ret, pipeline_vars>>

NextCorridor == corridor_pre_step \/ move_actor

SpecCorridor == InitCorridor /\ [][NextCorridor]_vars

\* ---------------------------------------------------------------- the crowd
\* Two Actors on the row of a Solid, side by side or two units apart, the Solid
\* last or first in the iteration order.
CrowdScenes == {
    << Actor(<<-U(1), 0>>, UnitBox), Actor(<<U(1), 0>>, UnitBox), Solid(<<U(4), 0>>, UnitBox) >>,
    << Solid(<<U(4), 0>>, UnitBox), Actor(<<1, 0>>, UnitBox), Actor(<<-U(2), 0>>, UnitBox) >>
}

CrowdDisp == {-U(1), 0, 1, U(BigMove)}

InitCrowd ==
    /\ body \in CrowdScenes
    /\ hz \in 1..MaxHz
    /\ stage = "PreStep"
    /\ start = body
    /\ swept = FALSE
    /\ collision_result = [i \in DOMAIN body |-> None]
    /\ arg = None
    /\ ret = None
    /\ transform = <<>>
    /\ player = <<>>
    /\ ran = <<>>
    /\ script = None

\* PreStep stage in the crowd: a system writes the x velocity of every Actor.
crowd_pre_step ==
    /\ stage = "PreStep"
    /\ \E dx \in [Actors -> CrowdDisp] :
          body' = [i \in DOMAIN body |->
                      IF i \in Actors
                      THEN [body[i] EXCEPT !.velocity = <<over_dt(dx[i]), 0>>]
                      ELSE body[i]]
    /\ stage' = "Step"
    /\ start' = body'
    /\ swept' = FALSE
    /\ UNCHANGED <<hz, collision_result, arg, ret, pipeline_vars>>

NextCrowd == crowd_pre_step \/ move_actor

SpecCrowd == InitCrowd /\ [][NextCrowd]_vars

\* ----------------------------------------------------- the loop, step by step
\* move_x (axis 1) and move_y (axis 2) run one loop iteration at a time on inputs
\* drawn from small sets; `ret` holds the function's local variables.
LoopSnapshots ==
    { <<>>,
      << <<<<U(3), 0>>, UnitBox>> >>,
      << <<<<-U(2) - 1, 0>>, UnitBox>>, <<<<0, U(4)>>, AABB(0, 0, 2, 1)>>,
         <<<<0, -U(2)>>, UnitBox>> >> }

LoopMoves == {-U(BigMove), -U(2), -1, 0, 1, U(2) + 1, U(BigMove)}

InitLoop ==
    /\ arg \in [axis : {1, 2},
                move_amount : LoopMoves,
                position : {<<0, 0>>, <<-1, 1>>},
                remainder : {<<0, 0>>, <<1, -1>>},
                collider : {UnitBox},
                solid_colliders : LoopSnapshots]
    /\ ret = None
    /\ body = <<>>
    /\ hz = 1
    /\ stage = "Loop"
    /\ start = <<>>
    /\ swept = FALSE
    /\ collision_result = <<>>
    /\ transform = <<>>
    /\ player = <<>>
    /\ ran = <<>>
    /\ script = None

\* A vector with its component on axis k replaced.
with_axis(v, k, x) == [v EXCEPT ![k] = x]

\* Lines 43-48 (70-75): the remainder takes the displacement, the rounded count is
\* taken out of it, and the loop is entered if the count is not zero.
loop_enter ==
    /\ stage = "Loop"
    /\ ret = None
    /\ LET k == arg.axis
           r == arg.remainder[k] + arg.move_amount
           movement == round(r)
       IN  ret' = Some([position |-> arg.position,
                        remainder |-> with_axis(arg.remainder, k,
                                                IF movement # 0 THEN r - U(movement) ELSE r),
                        steps |-> movement,
                        movement |-> movement,
                        sign |-> IF movement # 0 THEN loop_sign(movement) ELSE 0,
                        iterations |-> 0,
                        pc |-> IF movement # 0 THEN "while" ELSE "return"])
    /\ UNCHANGED <<body, hz, stage, start, swept, collision_result, arg, pipeline_vars>>

\* One iteration of the while loop: the step is committed, or the loop breaks.
loop_iteration ==
    /\ ret # None
    /\ ret[1].pc = "while"
    /\ ret[1].movement # 0
    /\ LET f == ret[1]
           k == arg.axis
           next == with_axis(f.position, k, f.position[k] + U(f.sign))
       IN  IF ~check_for_collision(arg.collider, next, arg.solid_colliders)
           THEN ret' = Some([f EXCEPT !.position = next,
                                      !.movement = f.movement - f.sign,
                                      !.iterations = f.iterations + 1])
           ELSE ret' = Some([f EXCEPT !.iterations = f.iterations + 1,
                                      !.pc = "return"])
    /\ UNCHANGED <<body, hz, stage, start, swept, collision_result, arg, pipeline_vars>>

\* The loop condition fails: movement is 0.
loop_exit ==
    /\ ret # None
    /\ ret[1].pc = "while"
    /\ ret[1].movement = 0
    /\ ret' = Some([ret[1] EXCEPT !.pc = "return"])
    /\ UNCHANGED <<body, hz, stage, start, swept, collision_result, arg, pipeline_vars>>

NextLoop == loop_enter \/ loop_iteration \/ loop_exit

SpecLoop == InitLoop /\ [][NextLoop]_vars

\* The function runs on one thread from entry to return: whatever step is next is
\* taken.
SpecLoopFair == SpecLoop /\ WF_vars(NextLoop)

\* ------------------------------------------------------------ the pipeline
\* The stages of a default bevy App, in the order the schedule runs them.
CoreStages == <<"First", "PreUpdate", "Update", "PostUpdate", "Last">>

index_of(stages, target) == CHOOSE i \in DOMAIN stages : stages[i] = target

add_stage_before(stages, target, name) ==
    LET i == index_of(stages, target)
    IN  SubSeq(stages, 1, i - 1) \o <<name>> \o SubSeq(stages, i, Len(stages))

\* Mutant: the new stage is put in front of the target stage.
add_stage_after_in_front(stages, target, name) ==
    LET i == index_of(stages, target)
    IN  SubSeq(stages, 1, i - 1) \o <<name>> \o SubSeq(stages, i, Len(stages))

add_stage_after(stages, target, name) ==
    LET i == index_of(stages, target)
    IN  SubSeq(stages, 1, i) \o <<name>> \o SubSeq(stages, i + 1, Len(stages))

\* PhysicsPlugin::build: Step before Update, PreStep before Step, PostStep after Step.
Schedule ==
    add_stage_after(
        add_stage_before(
            add_stage_before(CoreStages, "Update", "Step"),
            "Step", "PreStep"),
        "Step", "PostStep")

\* A system as it is registered: its stage, its label, and the labels of the systems
\* of its stage it must run before.
System(name, in_stage, label, before) ==
    [name |-> name, stage |-> in_stage, label |-> label, before |-> before]

\* The systems PhysicsPlugin and DebugPhysicsPlugin register.
BuiltSystems ==
    { System("debug_body_information", "PreStep", "", {}),
      System("move_actor", "Step", "MoveActors", {}),
      System("apply_body_position_to_transform", "PostStep", "", {}),
      System("debug_aabb", "Update", "", {}) }

\* Mutant: integrate_movement is registered without an ordering constraint.
PlayerSystems_unordered ==
    { System("gravity", "PreStep", "", {}),
      System("integrate_movement", "Step", "Integrate", {}),
      System("collision_check", "PostStep", "", {}) }

\* The systems of player_physics.rs, registered as the staged pipeline describes:
\* gravity in PreStep, integration in Step ahead of the sweep, the CollisionResult
\* consumer in PostStep.
PlayerSystems ==
    { System("gravity", "PreStep", "", {}),
      System("integrate_movement", "Step", "Integrate", {"MoveActors"}),
      System("collision_check", "PostStep", "", {}) }

Systems == BuiltSystems \cup PlayerSystems

system(name) == CHOOSE s \in Systems : s.name = name

HasRun(name) == \E i \in DOMAIN ran : ran[i] = name

\* A system can run when its stage is the current one, it has not run in this tick,
\* and every system of the stage that is registered before its label has run.
Runnable(name) ==
    LET s == system(name)
    IN  /\ stage = s.stage
        /\ ~HasRun(name)
        /\ \A o \in Systems :
              (o.stage = s.stage /\ s.label \in o.before) => HasRun(o.name)

StageDone == \A s \in Systems : s.stage = stage => HasRun(s.name)

Players == {i \in DOMAIN body : player[i] # None}

\* f32::signum of a value that is neither NaN nor -0.0.
fsignum(x) == IF x >= 0 THEN 1 ELSE -1

\* Mutant: the clamp has no lower bound.
clamp_upper_only(x, lo, hi) == IF x > hi THEN hi ELSE x

clamp(x, lo, hi) == IF x < lo THEN lo ELSE IF x > hi THEN hi ELSE x

\* f32::clamp asserts min <= max and panics otherwise.
clamp_panics(lo, hi) == lo > hi

fmax(x, y) == IF x >= y THEN x ELSE y

\* The body of integrate_movement's loop for one body with parameters p.
integrated(b, p) ==
    LET added_velocity == <<times_dt(b.acceleration[1]), times_dt(b.acceleration[2])>>
        temp_velocity ==
            IF \/ fsignum(b.velocity[1]) = fsignum(added_velocity[1])
               \/ added_velocity[1] = 0
            THEN <<added_velocity[1] + b.velocity[1], added_velocity[2] + b.velocity[2]>>
            ELSE <<added_velocity[1], added_velocity[2] + b.velocity[2]>>
    IN  [b EXCEPT !.velocity = <<clamp(temp_velocity[1], -p.max_walk_speed, p.max_walk_speed),
                                 fmax(temp_velocity[2], p.max_fall_speed)>>,
                  !.acceleration = <<0, 0>>]

\* Mutant: only the x translation is copied.
synced_x_only(t, position) == <<position[1], t[2], t[3]>>

\* The body of apply_body_position_to_transform's loop.
synced(t, position) == <<position[1], position[2], t[3]>>

\* The CollisionResult the sweep of one Actor produces: for each axis the contact of
\* the step that was rejected, if one was.
report(b, solid_colliders) ==
    LET move_amount == <<times_dt(b.velocity[1]), times_dt(b.velocity[2])>>
        mx == move_x(move_amount[1], b.position, b.remainder, b.collider, solid_colliders)
        my == move_y(move_amount[2], mx.position, mx.remainder, b.collider, solid_colliders)
        asked_x == round(b.remainder[1] + move_amount[1])
        asked_y == round(mx.remainder[2] + move_amount[2])
    IN  [x_collision_body |->
            IF mx.position[1] # b.position[1] + U(asked_x)
            THEN check_for_collision_opt(b.collider,
                     <<mx.position[1] + U(signum(asked_x)), mx.position[2]>>,
                     solid_colliders)
            ELSE None,
         y_collision_body |->
            IF my.position[2] # mx.position[2] + U(asked_y)
            THEN check_for_collision_opt(b.collider,
                     <<my.position[1], my.position[2] + U(signum(asked_y))>>,
                     solid_colliders)
            ELSE None]

\* The CollisionResult components after a sweep: an Actor that was stopped on an
\* axis gets a new one, every other body keeps what it had.
reported(bodies, results) ==
    LET solid_colliders == solid_colliders_of(bodies)
    IN  [i \in DOMAIN bodies |->
            IF bodies[i].body_type = "Actor"
            THEN LET r == report(bodies[i], solid_colliders)
                 IN  IF r.x_collision_body # None \/ r.y_collision_body # None
                     THEN Some(r)
                     ELSE results[i]
            ELSE results[i]]

\* The player: falling, one unit above the place it comes to rest on the floor.
PlayerBody(v) == [Actor(<<0, U(1)>>, UnitBox) EXCEPT !.velocity = v]

\* An Actor that is not a player, resting on the floor and pushed down.
CrateBody == [Actor(<<-U(3), 0>>, UnitBox) EXCEPT !.velocity = <<0, -over_dt(U(1))>>]

FloorBody == Solid(<<0, -U(2)>>, AABB(0, 0, 4, 1))

\* PlayerWalkParams and PlayerJumpParams, as far as the physics systems read them.
PlayerParams(g) ==
    [max_walk_speed |-> over_dt(U(1)),
     max_fall_speed |-> -over_dt(U(1)),
     gravity |-> g,
     grounded |-> FALSE]

InitPipeline ==
    /\ hz \in 1..MaxHz
    /\ \E vx \in {-U(1), 0, 1} :
          body = << PlayerBody(<<over_dt(vx), 0>>), FloorBody, CrateBody >>
    /\ \E gx \in {-1, 0, 1}, gy \in {-1, -U(1)} :
          player = << Some(PlayerParams(<<over_dt(over_dt(gx)), over_dt(over_dt(gy))>>)),
                      None, None >>
    /\ \E z \in {0, U(1)} :
          transform = [i \in DOMAIN body |-> <<0, 0, z + i>>]
    /\ stage = Schedule[1]
    /\ ran = <<>>
    /\ start = body
    /\ swept = FALSE
    /\ collision_result = [i \in DOMAIN body |-> None]
    /\ script = Some([pre_step |-> body])
    /\ arg = None
    /\ ret = None

\* debug_body_information only reads the bodies.
debug_body_information ==
    /\ Runnable("debug_body_information")
    /\ ran' = Append(ran, "debug_body_information")
    /\ swept' = FALSE
    /\ UNCHANGED <<body, hz, stage, start, collision_result, arg, ret,
                   transform, player, script>>

\* debug_aabb only reads the positions and colliders.
debug_aabb ==
    /\ Runnable("debug_aabb")
    /\ ran' = Append(ran, "debug_aabb")
    /\ swept' = FALSE
    /\ UNCHANGED <<body, hz, stage, start, collision_result, arg, ret,
                   transform, player, script>>

gravity ==
    /\ Runnable("gravity")
    /\ body' = [i \in DOMAIN body |->
                   IF i \in Players
                   THEN [body[i] EXCEPT
                            !.acceleration = <<@[1] + player[i][1].gravity[1],
                                               @[2] + player[i][1].gravity[2]>>]
                   ELSE body[i]]
    /\ ran' = Append(ran, "gravity")
    /\ swept' = FALSE
    /\ UNCHANGED <<hz, stage, start, collision_result, arg, ret, transform, player, script>>

integrate_movement ==
    /\ Runnable("integrate_movement")
    /\ body' = [i \in DOMAIN body |->
                   IF i \in Players THEN integrated(body[i], player[i][1]) ELSE body[i]]
    /\ ran' = Append(ran, "integrate_movement")
    /\ swept' = FALSE
    /\ UNCHANGED <<hz, stage, start, collision_result, arg, ret, transform, player, script>>

\* move_actor as a system of the Step stage, with the CollisionResult it attaches.
step_move_actor ==
    /\ Runnable("move_actor")
    /\ InWorld(moved(body))
    /\ body' = moved(body)
    /\ collision_result' = reported(body, collision_result)
    /\ start' = body
    /\ swept' = TRUE
    /\ ran' = Append(ran, "move_actor")
    /\ UNCHANGED <<hz, stage, arg, ret, transform, player, script>>

apply_body_position_to_transform ==
    /\ Runnable("apply_body_position_to_transform")
    /\ transform' = [i \in DOMAIN transform |-> synced(transform[i], body[i].position)]
    /\ ran' = Append(ran, "apply_body_position_to_transform")
    /\ swept' = FALSE
    /\ UNCHANGED <<body, hz, stage, start, collision_result, arg, ret, player, script>>

\* Mutant: a player that is already grounded is skipped, its CollisionResult kept.
collision_check_skipping_grounded ==
    /\ Runnable("collision_check")
    /\ player' = [i \in DOMAIN player |->
                     IF /\ i \in Players
                        /\ collision_result[i] # None
                        /\ ~player[i][1].grounded
                        /\ collision_result[i][1].y_collision_body # None
                     THEN Some([player[i][1] EXCEPT !.grounded = TRUE])
                     ELSE player[i]]
    /\ collision_result' = [i \in DOMAIN collision_result |->
                               IF i \in Players /\ ~player[i][1].grounded
                               THEN None
                               ELSE collision_result[i]]
    /\ ran' = Append(ran, "collision_check")
    /\ swept' = FALSE
    /\ UNCHANGED <<body, hz, stage, start, arg, ret, transform, script>>

\* collision_check: every player with a new CollisionResult becomes grounded if the
\* result has a y contact, and loses the component.  (The removal is a command,
\* applied when the stage ends; no other system of the stage reads the component.)
collision_check ==
    /\ Runnable("collision_check")
    /\ player' = [i \in DOMAIN player |->
                     IF /\ i \in Players
                        /\ collision_result[i] # None
                        /\ ~player[i][1].grounded
                        /\ collision_result[i][1].y_collision_body # None
                     THEN Some([player[i][1] EXCEPT !.grounded = TRUE])
                     ELSE player[i]]
    /\ collision_result' = [i \in DOMAIN collision_result |->
                               IF i \in Players THEN None ELSE collision_result[i]]
    /\ ran' = Append(ran, "collision_check")
    /\ swept' = FALSE
    /\ UNCHANGED <<body, hz, stage, start, arg, ret, transform, script>>

\* The schedule moves on when every system of the stage has run; after the last
\* stage the next tick begins.  The history keeps the bodies PreStep ended with.
next_stage ==
    /\ stage \in {Schedule[i] : i \in DOMAIN Schedule}
    /\ StageDone
    /\ LET i == index_of(Schedule, stage)
       IN  IF i < Len(Schedule)
           THEN stage' = Schedule[i + 1] /\ ran' = ran
           ELSE stage' = Schedule[1] /\ ran' = <<>>
    /\ script' = IF stage = "PreStep" THEN Some([pre_step |-> body]) ELSE script
    /\ swept' = FALSE
    /\ UNCHANGED <<body, hz, start, collision_result, arg, ret, transform, player>>

NextPipeline ==
    \/ debug_body_information
    \/ gravity
    \/ integrate_movement
    \/ step_move_actor
    \/ apply_body_position_to_transform
    \/ collision_check
    \/ debug_aabb
    \/ next_stage

SpecPipeline == InitPipeline /\ [][NextPipeline]_vars

\* ------------------------------------------------------ collision_check, probed
\* The PostStep stage of one tick, entered with CollisionResults and grounded flags
\* drawn from small sets: two players and a crate stand on the floor.
Contact == Some([position |-> <<0, -U(2)>>, collider |-> UnitBox])

GroundingResults ==
    {None} \cup {Some([x_collision_body |-> x, y_collision_body |-> y]) :
                     x \in {None, Contact}, y \in {None, Contact}}

InitGrounding ==
    /\ hz \in 1..MaxHz
    /\ body = << Actor(<<0, 0>>, UnitBox), Actor(<<U(2), 0>>, UnitBox),
                 Actor(<<-U(2), 0>>, UnitBox), FloorBody >>
    /\ \E g \in [1..2 -> BOOLEAN] :
          player = << Some([PlayerParams(<<0, 0>>) EXCEPT !.grounded = g[1]]),
                      Some([PlayerParams(<<0, 0>>) EXCEPT !.grounded = g[2]]),
                      None, None >>
    /\ \E r \in [1..3 -> GroundingResults] :
          collision_result = << r[1], r[2], r[3], None >>
    /\ transform = [i \in DOMAIN body |-> <<0, 0, i>>]
    /\ stage = "PostStep"
    /\ ran = << "debug_body_information", "gravity", "integrate_movement", "move_actor" >>
    /\ start = body
    /\ swept = FALSE
    /\ script = Some([pre_step |-> body, player |-> player,
                      collision_result |-> collision_result])
    /\ arg = None
    /\ ret = None

NextGrounding == collision_check \/ apply_body_position_to_transform

SpecGrounding == InitGrounding /\ [][NextGrounding]_vars

\* ------------------------------------------------- integrate_movement, probed
\* integrate_movement runs once on one body whose velocity, acceleration and walk
\* parameters are drawn from small sets; `ret` holds the body it leaves, or the
\* panic of the clamp.
ProbeSpeeds == {-3, -1, 0, 2, 3}

ProbeAccelerations == {over_dt(a) : a \in {-3, -1, 0, 1, 4}}

ProbeWalkSpeeds == {-2, 0, 2}

ProbeFallSpeeds == {-2, 0, 1}

InitIntegrate ==
    /\ hz \in 1..MaxHz
    /\ arg \in [velocity : ProbeSpeeds \X ProbeSpeeds,
                acceleration : ProbeAccelerations \X ProbeAccelerations,
                params : [max_walk_speed : ProbeWalkSpeeds,
                          max_fall_speed : ProbeFallSpeeds]]
    /\ ret = None
    /\ body = <<>>
    /\ stage = "Integrate"
    /\ start = <<>>
    /\ swept = FALSE
    /\ collision_result = <<>>
    /\ transform = <<>>
    /\ player = <<>>
    /\ ran = <<>>
    /\ script = None

call_integrate_movement ==
    /\ stage = "Integrate"
    /\ ret = None
    /\ ret' = IF clamp_panics(-arg.params.max_walk_speed, arg.params.max_walk_speed)
              THEN Some([op |-> "integrate_movement", panicked |-> TRUE])
              ELSE Some([op |-> "integrate_movement", panicked |-> FALSE,
                         val |-> integrated([velocity |-> arg.velocity,
                                             acceleration |-> arg.acceleration],
                                            arg.params)])
    /\ UNCHANGED <<body, hz, stage, start, swept, collision_result, arg, pipeline_vars>>

NextIntegrate == call_integrate_movement

SpecIntegrate == InitIntegrate /\ [][NextIntegrate]_vars

\* ------------------------------------------------------- the animation graph
\* animation_graph!(Player, ...): for each state, its transitions in the order they
\* are written, each with the state it leads to and its check on the velocity.
MaxRuns == 3

\* Mutant: Jump leaves for Fall only when the velocity points down.
PlayerGraph_strict_fall ==
    [Jump |-> << [next_state |-> "Fall", transition_check |-> "y < 0"] >>,
     Fall |-> << [next_state |-> "Idle", transition_check |-> "y == 0"],
                 [next_state |-> "Jump", transition_check |-> "y > 0"] >>,
     Idle |-> << [next_state |-> "Jump", transition_check |-> "y != 0 && y > 0"],
                 [next_state |-> "Fall", transition_check |-> "y != 0 && y < 0"],
                 [next_state |-> "Run", transition_check |-> "x != 0"] >>,
     Run  |-> << [next_state |-> "Jump", transition_check |-> "y != 0 && y > 0"],
                 [next_state |-> "Fall", transition_check |-> "y != 0 && y < 0"],
                 [next_state |-> "Idle", transition_check |-> "x == 0"] >>]

PlayerGraph ==
    [Jump |-> << [next_state |-> "Fall", transition_check |-> "y <= 0"] >>,
     Fall |-> << [next_state |-> "Idle", transition_check |-> "y == 0"],
                 [next_state |-> "Jump", transition_check |-> "y > 0"] >>,
     Idle |-> << [next_state |-> "Jump", transition_check |-> "y != 0 && y > 0"],
                 [next_state |-> "Fall", transition_check |-> "y != 0 && y < 0"],
                 [next_state |-> "Run", transition_check |-> "x != 0"] >>,
     Run  |-> << [next_state |-> "Jump", transition_check |-> "y != 0 && y > 0"],
                 [next_state |-> "Fall", transition_check |-> "y != 0 && y < 0"],
                 [next_state |-> "Idle", transition_check |-> "x == 0"] >>]

PlayerAnimationUpdate == DOMAIN PlayerGraph

\* The value of a transition's check for the velocity vel.
holds(transition_check, vel) ==
    CASE transition_check = "y <= 0" -> vel[2] <= 0
      [] transition_check = "y < 0" -> vel[2] < 0
      [] transition_check = "y == 0" -> vel[2] = 0
      [] transition_check = "y > 0" -> vel[2] > 0
      [] transition_check = "y != 0 && y > 0" -> vel[2] # 0 /\ vel[2] > 0
      [] transition_check = "y != 0 && y < 0" -> vel[2] # 0 /\ vel[2] < 0
      [] transition_check = "x != 0" -> vel[1] # 0
      [] transition_check = "x == 0" -> vel[1] = 0

\* The generated arm of one state: one `if check { *state = next }` after the
\* other, from transition i on; `action` is the state as assigned so far.
RECURSIVE transition_ifs(_, _, _, _)
transition_ifs(transitions, vel, action, i) ==
    IF i > Len(transitions) THEN action
    ELSE transition_ifs(transitions, vel,
                        IF holds(transitions[i].transition_check, vel)
                        THEN transitions[i].next_state
                        ELSE action,
                        i + 1)

\* The generated match: the arm of the state held when the match is entered.
animation_update(action, vel) == transition_ifs(PlayerGraph[action], vel, action, 1)

AnimationSpeeds == {-1, 0, 1}

\* One entity with the Player animation state and a Velocity.  The history keeps
\* the state and velocity the last run started with, the number of runs, and the
\* number of runs in a row made with velocity (0,0).
InitAnimation ==
    /\ hz = 1
    /\ \E v \in AnimationSpeeds \X AnimationSpeeds :
          body = << PlayerBody(v) >>
    /\ \E action \in PlayerAnimationUpdate :
          player = << Some([animation |-> action]) >>
    /\ script = Some([held |-> player[1][1].animation, vel |-> body[1].velocity,
                      runs |-> 0, still |-> 0])
    /\ stage = "Animation"
    /\ start = body
    /\ swept = FALSE
    /\ collision_result = << None >>
    /\ transform = << <<0, 0, 0>> >>
    /\ ran = <<>>
    /\ arg = None
    /\ ret = None

\* The generated system player_animation_update, on every entity of its query.
player_animation_update ==
    /\ stage = "Animation"
    /\ script[1].runs < MaxRuns
    /\ player' = [i \in DOMAIN player |->
                     Some([player[i][1] EXCEPT
                              !.animation = animation_update(@, body[i].velocity)])]
    /\ script' = Some([held |-> player[1][1].animation,
                       vel |-> body[1].velocity,
                       runs |-> script[1].runs + 1,
                       still |-> IF body[1].velocity = <<0, 0>>
                                 THEN script[1].still + 1
                                 ELSE 0])
    /\ UNCHANGED <<body, hz, stage, start, swept, collision_result, arg, ret,
                   transform, ran>>

\* Between two runs the physics gives the entity another velocity.
velocity_changes ==
    /\ stage = "Animation"
    /\ \E v \in AnimationSpeeds \X AnimationSpeeds :
          /\ v # body[1].velocity
          /\ body' = [body EXCEPT ![1].velocity = v]
    /\ script' = Some([script[1] EXCEPT !.still = 0])
    /\ UNCHANGED <<hz, stage, start, swept, collision_result, arg, ret,
                   transform, player, ran>>

NextAnimation == player_animation_update \/ velocity_changes

SpecAnimation == InitAnimation /\ [][NextAnimation]_vars

C2_IdleInvariant ==
    swept =>
        \A a \in Actors :
            (start[a].velocity = <<0, 0>> /\ start[a].acceleration = <<0, 0>>)
                => body[a].position = start[a].position

\* -------------------------------------------------------------------- C3
\* C3: after every sweep, blocked or not, each Actor's remainder is less than one
\* unit in magnitude on both axes.
C3_RemainderBound ==
    swept =>
        \A a \in Actors :
            /\ Abs(body[a].remainder[1]) < U(1)
            /\ Abs(body[a].remainder[2]) < U(1)

\* A sweep that asked for several steps was stopped short and left a remainder.
C3_Witness ==
    /\ swept
    /\ \E a \in Actors :
          /\ Abs(AskedX(a)) >= 2
          /\ BlockedX(a)
          /\ body[a].remainder # <<0, 0>>

\* -------------------------------------------------------------------- C4
\* C4: move_actor leaves every Solid exactly as it was (position, velocity,
\* acceleration, remainder, kind, collider), changes no body's kind, and every
\* body's kind is Actor or Solid.
C4_SolidsUnchanged ==
    /\ \A i \in DOMAIN body : body[i].body_type \in {"Actor", "Solid"}
    /\ swept =>
          \A i \in DOMAIN start :
              /\ body[i].body_type = start[i].body_type
              /\ start[i].body_type = "Solid" => body[i] = start[i]

\* An Actor has been moved by a pass over bodies that hold a Solid with a velocity
\* and an acceleration of its own.
C4_Witness ==
    /\ swept
    /\ \E a \in Actors : body[a].position # start[a].position
    /\ \E s \in Solids : body[s].velocity # <<0, 0>> /\ body[s].acceleration # <<0, 0>>

\* -------------------------------------------------------------------- C5
\* The boxes of the last call of AABB::interescts.
BoxA == probe_box
BoxB == other_box(ret[1].i)

\* C5: AABB::interescts(a, b) is true exactly when a.min.x < b.max.x and
\* a.max.x > b.min.x and a.min.y < b.max.y and a.max.y > b.min.y, with min = position
\* - half_size and max = position + half_size; boxes with a coinciding edge do not
\* overlap; and interescts(a, b) = interescts(b, a).
C5_OverlapPredicate ==
    (ret # None /\ ret[1].op = "interescts") =>
        /\ ret[1].val =
              (/\ BoxA.position[1] - BoxA.half_size[1] < BoxB.position[1] + BoxB.half_size[1]
               /\ BoxA.position[1] + BoxA.half_size[1] > BoxB.position[1] - BoxB.half_size[1]
               /\ BoxA.position[2] - BoxA.half_size[2] < BoxB.position[2] + BoxB.half_size[2]
               /\ BoxA.position[2] + BoxA.half_size[2] > BoxB.position[2] - BoxB.half_size[2])
        /\ (\/ BoxA.position[1] + BoxA.half_size[1] = BoxB.position[1] - BoxB.half_size[1]
            \/ BoxB.position[1] + BoxB.half_size[1] = BoxA.position[1] - BoxA.half_size[1]
            \/ BoxA.position[2] + BoxA.half_size[2] = BoxB.position[2] - BoxB.half_size[2]
            \/ BoxB.position[2] + BoxB.half_size[2] = BoxA.position[2] - BoxA.half_size[2])
              => ~ret[1].val
        /\ ret[1].val = ret[1].rev

\* interescts was called on two boxes of positive size whose x edges coincide and
\* whose y ranges overlap, and said no.
C5_Witness ==
    /\ ret # None
    /\ ret[1].op = "interescts"
    /\ BoxA.half_size[1] > 0 /\ BoxA.half_size[2] > 0
    /\ BoxB.half_size[1] > 0 /\ BoxB.half_size[2] > 0
    /\ BoxA.position[1] + BoxA.half_size[1] = BoxB.position[1] - BoxB.half_size[1]
    /\ BoxA.position[2] = BoxB.position[2]
    /\ ~ret[1].val

\* -------------------------------------------------------------------- C6
\* The wall-stop scene as the sweep of Actor a found it: the Actor at x=0 with half
\* extent 1, one Solid at x=5 with half extent 1 on the same row, no other Solid,
\* and at least 10 units of +x motion asked for.
WallStopScene(a) ==
    /\ start[a].position[1] = 0
    /\ start[a].collider = AABB(0, 0, 1, 1)
    /\ Cardinality(Solids) = 1
    /\ \A s \in Solids :
          /\ start[s].position = <<U(5), start[a].position[2]>>
          /\ start[s].collider = AABB(0, 0, 1, 1)
    /\ start[a].remainder[1] + times_dt(start[a].velocity[1]) >= U(10)

C7_CollisionReported ==
    swept =>
        \A a \in Actors :
            (BlockedX(a) \/ BlockedY(a)) =>
                /\ collision_result[a] # None
                /\ (collision_result[a][1].x_collision_body # None) <=> BlockedX(a)
                /\ (collision_result[a][1].y_collision_body # None) <=> BlockedY(a)

\* -------------------------------------------------------------------- C8
\* The first entry of the probed snapshot that overlaps the probed collider.
FirstHit ==
    CHOOSE i \in DOMAIN arg.colliders :
        /\ interescts(probe_box, other_box(i))
        /\ \A j \in 1..(i - 1) : ~interescts(probe_box, other_box(j))

\* C8: the record check_for_collision returns for a blocked candidate carries the
\* position and the collider of the blocking Solid.
C8_ContactOfSolid ==
    (ret # None /\ ret[1].op = "check_for_collision" /\ ret[1].val # None) =>
        /\ ret[1].val[1].position = arg.colliders[FirstHit][1]
        /\ ret[1].val[1].collider = arg.colliders[FirstHit][2]

\* -------------------------------------------------------------------- C9
\* Actor a began its sweep at a corner: one unit step along x alone is free, one
\* along y alone is free, the diagonal cell is blocked, and it asked for exactly one
\* step along x and at least one along y.
CornerCase(a) ==
    LET p == start[a].position
        sx == signum(AskedX(a))
        sy == signum(AskedY(a))
        solids == solid_colliders_of(start)
    IN  /\ Abs(AskedX(a)) = 1
        /\ AskedY(a) # 0
        /\ ~check_for_collision(start[a].collider, <<p[1] + U(sx), p[2]>>, solids)
        /\ ~check_for_collision(start[a].collider, <<p[1], p[2] + U(sy)>>, solids)
        /\ check_for_collision(start[a].collider, <<p[1] + U(sx), p[2] + U(sy)>>, solids)

\* C9: the X sweep runs first, at the starting y, and the Y sweep runs at the x the
\* X sweep ended at: a stopped X sweep was stopped by a Solid in the starting row, a
\* stopped Y sweep by a Solid in the final column; and at a corner the X step is
\* committed and the Y step rejected.
C9_AxisOrder ==
    swept =>
        \A a \in Actors :
            LET solids == solid_colliders_of(start)
                x == body[a].position[1]
            IN  /\ BlockedX(a) =>
                      check_for_collision(body[a].collider,
                          <<x + U(signum(AskedX(a))), start[a].position[2]>>, solids)
                /\ BlockedY(a) =>
                      check_for_collision(body[a].collider,
                          <<x, body[a].position[2] + U(signum(AskedY(a)))>>, solids)
                /\ CornerCase(a) => (WentX(a) = AskedX(a) /\ WentY(a) = 0)

\* A sweep that began at a corner committed its X step and rejected its Y step.
C9_Witness ==
    /\ swept
    /\ \E a \in Actors : CornerCase(a) /\ WentX(a) # 0 /\ WentY(a) = 0

\* ------------------------------------------------------------------- C10
\* C10: after move_actor an Actor's velocity times dt is the distance it moved in the
\* sweep, on each axis: a whole number of units, and zero on an axis on which no
\* step was committed.
C10_AchievedVelocity ==
    swept =>
        \A a \in Actors : \A k \in 1..2 :
            /\ body[a].velocity[k] = hz * (body[a].position[k] - start[a].position[k])
            /\ body[a].position[k] = start[a].position[k] => body[a].velocity[k] = 0
            /\ (body[a].velocity[k] \div hz) % Sub = 0
            /\ (body[a].velocity[k] \div hz) * hz = body[a].velocity[k]

\* An Actor that asked for motion along x was stopped at once and has x velocity 0,
\* at a frame time other than one second.
C10_Witness ==
    /\ swept
    /\ hz > 1
    /\ \E a \in Actors :
          /\ AskedX(a) # 0
          /\ WentX(a) = 0
          /\ start[a].velocity[1] # 0
          /\ body[a].velocity[1] = 0
          /\ WentY(a) # 0


\* ------------------------------------------------------------------- C11
\* C11: at the end of the Step stage of every tick every Actor's acceleration is
\* (0,0), whatever the PreStep systems wrote to it in that tick; the next tick
\* therefore starts from a zero acceleration.
C11_AccelerationReset ==
    swept => \A a \in Actors : body[a].acceleration = <<0, 0>>

\* A sweep has ended a tick in which a PreStep system wrote a non-zero acceleration
\* on both axes.
C11_Witness ==
    /\ swept
    /\ \E a \in Actors :
          /\ start[a].acceleration[1] # 0
          /\ start[a].acceleration[2] # 0
          /\ body[a].acceleration = <<0, 0>>


\* ------------------------------------------------------------------- C12
\* The free run has made all its 2t sweeps.
RoundTripDone ==
    /\ script # None
    /\ swept
    /\ script[1].n = 2 * script[1].t

\* No Solid overlaps the Actor at any whole-unit step between its starting position
\* and the farthest position t ticks of v can take it to.
PathClear ==
    LET s == script[1]
        o == s.origin
    IN  \A i \in 0..((s.t * Abs(s.v[1])) \div Sub), j \in 0..((s.t * Abs(s.v[2])) \div Sub) :
            \A b \in Solids :
                ~interescts(grid_box(o.collider,
                                     <<o.position[1] + U(i * signum(s.v[1])),
                                       o.position[2] + U(j * signum(s.v[2]))>>),
                            grid_box(body[b].collider, body[b].position))

WholeUnits(v) == v[1] % Sub = 0 /\ v[2] % Sub = 0

\* C12: an Actor with remainder (0,0) that is given a whole number of units per tick
\* for t ticks and the opposite for t ticks, with no Solid in its path, is back at
\* exactly its starting position with remainder (0,0).
C12_RoundTrip ==
    (/\ RoundTripDone
     /\ PathClear
     /\ WholeUnits(script[1].v)
     /\ script[1].origin.remainder = <<0, 0>>)
        => /\ body[TheActor].position = script[1].origin.position
           /\ body[TheActor].remainder = <<0, 0>>

\* A round trip of more than one tick each way, diagonal, from a fractional
\* position, has come back.
C12_Witness ==
    /\ RoundTripDone
    /\ PathClear
    /\ WholeUnits(script[1].v)
    /\ script[1].origin.remainder = <<0, 0>>
    /\ script[1].t > 1
    /\ script[1].v[1] # 0
    /\ script[1].v[2] > 0
    /\ Fractional(script[1].origin.position)
    /\ body[TheActor].position = script[1].origin.position

\* ------------------------------------------------------------------- C20
\* C20: while no sweep of an Actor has been stopped, after every tick position +
\* remainder equals, on each axis, the initial position + initial remainder + the
\* sum of the displacements given to the sweeps; the position has moved by whole
\* units and the remainder is at most half a unit.
C20_SubUnitAccumulation ==
    (/\ script # None
     /\ swept
     /\ script[1].unblocked
     /\ ~BlockedX(TheActor)
     /\ ~BlockedY(TheActor))
        => \A k \in 1..2 :
              /\ body[TheActor].position[k] + body[TheActor].remainder[k]
                    = script[1].origin.position[k] + script[1].origin.remainder[k]
                      + script[1].given[k]
              /\ (body[TheActor].position[k] - script[1].origin.position[k]) % Sub = 0
              /\ 2 * Abs(body[TheActor].remainder[k]) <= Sub

\* Several ticks of the same fraction of a unit have added up to a whole-unit step
\* on x, from a remainder that was not zero.
C20_Witness ==
    /\ script # None
    /\ swept
    /\ script[1].unblocked
    /\ ~BlockedX(TheActor)
    /\ ~BlockedY(TheActor)
    /\ script[1].n > 1
    /\ script[1].n <= script[1].t
    /\ ~WholeUnits(script[1].v)
    /\ script[1].v[1] % Sub # 0
    /\ script[1].origin.remainder # <<0, 0>>
    /\ body[TheActor].position[1] # script[1].origin.position[1]


\* ------------------------------------------------------------------- C13
\* The bodies in another iteration order.
shuffled(bodies, p) == [i \in DOMAIN bodies |-> bodies[p[i]]]

\* C13: the position, remainder and velocity a tick leaves every Actor with depend
\* only on the bodies and the inputs the tick began with: a pass over the same
\* bodies in any other iteration order, with the Solids in any other snapshot
\* order, gives every body the same result (all of its components).
C13_Determinism ==
    swept =>
        \A p \in Permutations(DOMAIN start) :
            moved(shuffled(start, p)) = shuffled(body, p)

\* A sweep among two Solids was stopped on both axes, by different Solids.
C13_Witness ==
    /\ swept
    /\ Cardinality(Solids) > 1
    /\ \E a \in Actors :
          /\ BlockedX(a)
          /\ BlockedY(a)
          /\ \E s \in Solids, t \in Solids :
                /\ s # t
                /\ body[s].position # body[t].position


\* ------------------------------------------------------------------- C14
\* The place of a stage in the order the claim gives: PreStep, Step, PostStep, then
\* the host's Update; the stages around them come first and last.
StageRank(s) ==
    IF s \in {"First", "PreUpdate"} THEN 0
    ELSE IF s = "PreStep" THEN 1
    ELSE IF s = "Step" THEN 2
    ELSE IF s = "PostStep" THEN 3
    ELSE IF s = "Update" THEN 4
    ELSE 5

PhaseRank(name) == StageRank(system(name).stage)

\* C14: in every tick no system of a later stage has run before a system of an
\* earlier stage, in the order PreStep, Step, PostStep, Update; and while a stage is
\* the current one every system of the stages ahead of it has run and no system of
\* the stages after it has.
C14_PhaseOrder ==
    /\ \A i \in DOMAIN ran, j \in DOMAIN ran :
          i < j => PhaseRank(ran[i]) <= PhaseRank(ran[j])
    /\ \A s \in Systems :
          /\ StageRank(s.stage) < StageRank(stage) => HasRun(s.name)
          /\ StageRank(s.stage) > StageRank(stage) => ~HasRun(s.name)

\* The Update stage is running and every system of the three physics stages has run.
C14_Witness ==
    /\ stage = "Update"
    /\ HasRun("gravity")
    /\ HasRun("integrate_movement")
    /\ HasRun("move_actor")
    /\ HasRun("apply_body_position_to_transform")
    /\ HasRun("collision_check")
    /\ ~HasRun("debug_aabb")

\* ------------------------------------------------------------------- C15
\* The bodies as they were when the PreStep stage of this tick ended.
pre_step == script[1].pre_step

AfterPostStep(s) == s \in {"Update", "PostUpdate", "Last"}

\* C16: no step changes the z translation of a transform, and in every state after
\* the PostStep stage of a tick every body's transform has the x and y of the
\* body's position as the sweep of that tick left it.
C16_TransformSync ==
    [][/\ \A i \in DOMAIN transform : transform'[i][3] = transform[i][3]
       /\ AfterPostStep(stage') =>
             \A i \in DOMAIN transform :
                 /\ transform'[i][1] = body'[i].position[1]
                 /\ transform'[i][2] = body'[i].position[2]]_vars

\* After PostStep a body that the sweep of this tick moved has its new position in
\* its transform, and a z translation that is not zero.
C16_Witness ==
    /\ stage = "Update"
    /\ \E i \in DOMAIN body :
          /\ body[i].position[1] # start[i].position[1]
          /\ body[i].position[2] # start[i].position[2]
          /\ transform[i][1] = body[i].position[1]
          /\ transform[i][2] = body[i].position[2]
          /\ transform[i][3] # 0

Flat(box) == box.half_size[1] = 0 \/ box.half_size[2] = 0

\* C19 as claimed: a box whose half size is zero on an axis overlaps no box.
C19_DegenerateNeverOverlaps ==
    (ret # None /\ ret[1].op = "interescts" /\ (Flat(BoxA) \/ Flat(BoxB)))
        => ~ret[1].val /\ ~ret[1].rev

\* The centre of box a lies strictly inside the range of box b on axis k.
CentreInside(k, a, b) ==
    /\ b.position[k] - b.half_size[k] < a.position[k]
    /\ a.position[k] < b.position[k] + b.half_size[k]

\* The ranges of the two boxes on axis k overlap by more than an edge.
RangesOverlap(k, a, b) ==
    /\ a.position[k] - a.half_size[k] < b.position[k] + b.half_size[k]
    /\ a.position[k] + a.half_size[k] > b.position[k] - b.half_size[k]

\* C19, amended: a box whose half size is zero on an axis overlaps another box
\* exactly when its centre lies strictly inside the other box's range on that axis
\* and the ranges overlap on the other axis; two boxes that both have half size zero
\* on the same axis never overlap.  A collider of half size (0,0) is therefore
\* reported as colliding exactly when its centre is strictly inside a collider of
\* the snapshot.
C19_DegenerateOverlap ==
    /\ (ret # None /\ ret[1].op = "interescts") =>
          \A k \in 1..2 :
              /\ BoxA.half_size[k] = 0 =>
                    ret[1].val = (CentreInside(k, BoxA, BoxB) /\ RangesOverlap(3 - k, BoxA, BoxB))
              /\ BoxB.half_size[k] = 0 =>
                    ret[1].val = (CentreInside(k, BoxB, BoxA) /\ RangesOverlap(3 - k, BoxA, BoxB))
              /\ (BoxA.half_size[k] = 0 /\ BoxB.half_size[k] = 0) => ~ret[1].val
    /\ (ret # None /\ ret[1].op = "check_for_collision" /\ probe_box.half_size = <<0, 0>>) =>
          (ret[1].val # None) =
              (\E i \in DOMAIN arg.colliders :
                  CentreInside(1, probe_box, other_box(i)) /\ CentreInside(2, probe_box, other_box(i)))

\* interescts was called on a box of half size (0,0) inside a box of positive size,
\* and said yes.
C19_Witness ==
    /\ ret # None
    /\ ret[1].op = "interescts"
    /\ BoxA.half_size = <<0, 0>>
    /\ BoxB.half_size[1] > 0
    /\ BoxB.half_size[2] > 0
    /\ ret[1].val
    /\ ret[1].rev


\* ------------------------------------------------------------------- C18
\* Solid s is at least one unit thick along x, its box spans the box of Actor a along
\* y, and the two boxes did not overlap when the tick began, neither as they are nor
\* with the positions rounded as the sweep rounds them.
FacesWall(a, s) ==
    /\ 2 * start[s].collider.half_size[1] >= 1
    /\ min(world_box(start[s]))[2] <= min(world_box(start[a]))[2]
    /\ max(world_box(start[a]))[2] <= max(world_box(start[s]))[2]
    /\ ~interescts(world_box(start[a]), world_box(start[s]))
    /\ ~interescts(grid_box(start[a].collider, start[a].position),
                   grid_box(start[s].collider, start[s].position))

\* C18: an Actor that begins a tick on one side of such a Solid does not end the
\* tick beyond the Solid's far face, whatever displacement it asked for.
C18_NoTunneling ==
    swept =>
        \A a \in Actors, s \in Solids :
            FacesWall(a, s) =>
                /\ max(world_box(start[a]))[1] <= min(world_box(start[s]))[1] =>
                      min(world_box(body[a]))[1] < max(world_box(body[s]))[1]
                /\ min(world_box(start[a]))[1] >= max(world_box(start[s]))[1] =>
                      max(world_box(body[a]))[1] > min(world_box(body[s]))[1]


\* ------------------------------------------------------------------- C22
\* What the sweep of body a added its displacement to, on axis k: the remainder the
\* tick began with plus velocity * dt.
Budget(a, k) == start[a].remainder[k] + times_dt(start[a].velocity[k])

\* C22: after every sweep, stopped or not, the remainder on each axis is the budget
\* minus a whole number of units, steps, that is the budget rounded to the nearest
\* whole number with halves away from zero; the steps a stopped sweep did not
\* commit are not put back.
C22_ForfeitedBudget ==
    swept =>
        \A a \in Actors : \A k \in 1..2 :
            LET left == body[a].remainder[k]
                taken == Budget(a, k) - left
            IN  /\ taken % Sub = 0
                /\ 2 * Abs(left) <= Sub
                /\ 2 * Abs(left) = Sub => Abs(taken) > Abs(Budget(a, k))
                /\ taken = U(IF k = 1 THEN AskedX(a) ELSE AskedY(a))

\* A sweep was stopped on x after committing at least one of several steps, and a
\* sweep on y was stopped too; the budget on x had a fractional part.
C22_Witness ==
    /\ swept
    /\ \E a \in Actors :
          /\ Abs(AskedX(a)) > Abs(WentX(a))
          /\ Abs(WentX(a)) >= 1
          /\ Budget(a, 1) % Sub # 0
          /\ BlockedY(a)


\* ------------------------------------------------------------------- C26
\* No Solid overlaps any of the positions the X sweep of body a was to step to; the
\* same for the Y sweep, which starts where the X sweep ended.
PathFreeX(a) ==
    \A i \in 1..Abs(AskedX(a)) :
        ~check_for_collision(start[a].collider,
                             <<start[a].position[1] + U(i * signum(AskedX(a))),
                               start[a].position[2]>>,
                             solid_colliders_of(start))

PathFreeY(a) ==
    \A i \in 1..Abs(AskedY(a)) :
        ~check_for_collision(start[a].collider,
                             <<body[a].position[1],
                               start[a].position[2] + U(i * signum(AskedY(a)))>>,
                             solid_colliders_of(start))

\* C26: in every tick an Actor's position changes on each axis by a whole number of
\* units d, never against the direction of steps = round(remainder + velocity * dt)
\* and never by more than |steps|; d = steps when no Solid is in the way; the
\* fractional part of the coordinate stays what it was.
C26_BoundedWholeUnitMotion ==
    swept =>
        \A a \in Actors : \A k \in 1..2 :
            LET d == body[a].position[k] - start[a].position[k]
                steps == IF k = 1 THEN AskedX(a) ELSE AskedY(a)
                free == IF k = 1 THEN PathFreeX(a) ELSE PathFreeY(a)
            IN  /\ d % Sub = 0
                /\ d * steps >= 0
                /\ Abs(d) <= U(Abs(steps))
                /\ free => d = U(steps)
                /\ body[a].position[k] % Sub = start[a].position[k] % Sub

\* An Actor at a fractional position was stopped on x after some of several steps
\* towards -x, and moved freely on y.
C26_Witness ==
    /\ swept
    /\ \E a \in Actors :
          /\ Fractional(start[a].position)
          /\ AskedX(a) < -1
          /\ WentX(a) < 0
          /\ WentX(a) > AskedX(a)
          /\ AskedY(a) # 0
          /\ WentY(a) = AskedY(a)


\* ------------------------------------------------------------------- C24
IsSolid(b) == b.body_type = "Solid"

\* The Solids the tick began with, as <<position, collider>> pairs.
SolidsAtStart ==
    LET solids == SelectSeq(start, IsSolid)
    IN  [i \in DOMAIN solids |-> <<solids[i].position, solids[i].collider>>]

\* C24: after a pass every Actor is where its own sweep among the Solids alone, as
\* they were when the pass began, takes it, with the remainder and velocity of that
\* sweep: the other Actors, their positions and their place in the iteration order
\* change nothing.
C24_SnapshotIsolation ==
    swept =>
        /\ \A a \in Actors : body[a] = sweep_actor(start[a], SolidsAtStart)
        /\ \A p \in Permutations(DOMAIN start) :
              moved(shuffled(start, p)) = shuffled(body, p)

\* Two Actors that did not overlap when the tick began and both moved end it
\* overlapping each other, one of them stopped by the Solid.
C24_Witness ==
    /\ swept
    /\ \E a \in Actors, b \in Actors :
          /\ a # b
          /\ ~interescts(grid_box(start[a].collider, start[a].position),
                         grid_box(start[b].collider, start[b].position))
          /\ interescts(grid_box(body[a].collider, body[a].position),
                        grid_box(body[b].collider, body[b].position))
          /\ WentX(a) # 0
          /\ WentX(b) # 0
          /\ BlockedX(b)


\* ------------------------------------------------------------------- C23
\* The entries of the probed snapshot that overlap the probed collider.
Hits == {i \in DOMAIN arg.colliders : interescts(probe_box, other_box(i))}

\* C23: check_for_collision returns None exactly when no entry of the snapshot
\* overlaps the candidate, and otherwise the record it returns has the position of
\* the overlapping entry that comes first in the snapshot.
C23_FirstSolidWins ==
    (ret # None /\ ret[1].op = "check_for_collision") =>
        /\ (ret[1].val = None) = (Hits = {})
        /\ Hits # {} =>
              \E i \in Hits :
                  /\ \A j \in Hits : i <= j
                  /\ ret[1].val[1].position = arg.colliders[i][1]

\* Two entries at different positions overlap the candidate, the first of them is the
\* one farther away from it, and it is the one reported.
C23_Witness ==
    /\ ret # None
    /\ ret[1].op = "check_for_collision"
    /\ Cardinality(Hits) = 2
    /\ arg.colliders[1][1] # arg.colliders[2][1]
    /\ Abs(arg.colliders[1][1][1] - arg.position[1]) > Abs(arg.colliders[2][1][1] - arg.position[1])
    /\ ret[1].val # None
    /\ ret[1].val[1].position = arg.colliders[1][1]


\* ---------------------------------------------------------------------- C25
\* The loop has run its course: the function is at its return.
LoopReturned == ret # None /\ ret[1].pc = "return"

\* Iterations never exceed |steps|; while the loop runs, the iterations made and
\* the count still to go add up to |steps|.
LoopVariant ==
    ret # None =>
        /\ ret[1].iterations <= Abs(ret[1].steps)
        /\ ret[1].pc = "while" =>
               ret[1].iterations + Abs(ret[1].movement) = Abs(ret[1].steps)

\* C25: for every displacement and every snapshot of Solids, the stepping loop of
\* move_x and of move_y makes at most |steps| iterations, each one committing a
\* unit and bringing the remaining count one closer to zero or stopping on a
\* collision, and the function reaches its return.
C25_SweepTerminates == []LoopVariant /\ <>LoopReturned

\* Witness: a loop that committed several units and then stopped on a collision
\* with part of its count left.
C25_Witness ==
    /\ LoopReturned
    /\ ret[1].iterations >= 2
    /\ ret[1].movement # 0
    /\ ret[1].iterations < Abs(ret[1].steps)


\* ---------------------------------------------------------------------- C27
\* integrate_movement has returned for the probed body.
Integrated == ret # None /\ ret[1].op = "integrate_movement" /\ ~ret[1].panicked

\* C27: for max_walk_speed >= 0, integrate_movement returns, and the body it
\* leaves has velocity.x in [-max_walk_speed, max_walk_speed], velocity.y >=
\* max_fall_speed and acceleration (0,0), whatever velocity and acceleration it
\* started with.
C27_SpeedClamp ==
    (ret # None /\ stage = "Integrate" /\ arg.params.max_walk_speed >= 0) =>
        /\ Integrated
        /\ ret[1].val.velocity[1] >= -arg.params.max_walk_speed
        /\ ret[1].val.velocity[1] <= arg.params.max_walk_speed
        /\ ret[1].val.velocity[2] >= arg.params.max_fall_speed
        /\ ret[1].val.acceleration = <<0, 0>>

\* Witness: a body faster than the walk speed to the left and falling faster than
\* the fall speed, with a nonzero acceleration, has been integrated.
C27_Witness ==
    /\ Integrated
    /\ stage = "Integrate"
    /\ arg.params.max_walk_speed > 0
    /\ arg.velocity[1] < -arg.params.max_walk_speed
    /\ arg.velocity[2] < arg.params.max_fall_speed
    /\ arg.acceleration[1] < 0
    /\ arg.acceleration[2] < 0
    /\ ret[1].val.velocity = <<-arg.params.max_walk_speed, arg.params.max_fall_speed>>

\* ---------------------------------------------------------------------- C21
\* C21: no step of the physics tick fails or aborts, whatever the body state and
\* the parameter values; here: integrate_movement returns for every velocity,
\* acceleration, max_walk_speed and max_fall_speed.
C21_Totality ==
    (ret # None /\ stage = "Integrate") => ~ret[1].panicked


\* ---------------------------------------------------------------------- C28
\* collision_check visits the players that carry a CollisionResult.
Visited(i) == i \in Players /\ collision_result[i] # None

HasYContact(i) == collision_result[i] # None /\ collision_result[i][1].y_collision_body # None

\* C28: in a run of collision_check a visited player that was not grounded becomes
\* grounded exactly when its CollisionResult has a y contact, no player goes from
\* grounded to not grounded, every visited player loses its CollisionResult
\* whether or not it has a y contact or was grounded, and a player that is not
\* visited keeps its parameters.
C28_Grounding ==
    [][ran' = Append(ran, "collision_check") =>
          \A i \in Players :
             /\ player[i][1].grounded => player'[i][1].grounded
             /\ Visited(i) =>
                   /\ ~player[i][1].grounded =>
                         (player'[i][1].grounded <=> HasYContact(i))
                   /\ collision_result'[i] = None
             /\ ~Visited(i) => player'[i] = player[i]]_vars

\* Witness: collision_check has run where the first player was grounded and had a
\* result with an x contact only, the second was not grounded and had a y contact,
\* and the crate had a result too; both players are grounded and without result,
\* the crate's result is still there.
C28_Witness ==
    /\ HasRun("collision_check")
    /\ stage = "PostStep"
    /\ "player" \in DOMAIN script[1]
    /\ script[1].player[1][1].grounded
    /\ script[1].collision_result[1] # None
    /\ script[1].collision_result[1][1].x_collision_body # None
    /\ script[1].collision_result[1][1].y_collision_body = None
    /\ ~script[1].player[2][1].grounded
    /\ script[1].collision_result[2] # None
    /\ script[1].collision_result[2][1].y_collision_body # None
    /\ player[1][1].grounded
    /\ player[2][1].grounded
    /\ collision_result[1] = None
    /\ collision_result[2] = None
    /\ collision_result[3] # None



\* ---------------------------------------------------------------------- C29
\* C29: after a run of player_animation_update that started in Idle or Run with a
\* nonzero vertical velocity, the state is Jump if the velocity pointed up and
\* Fall if it pointed down, whatever the horizontal velocity was.
C29_VerticalPrecedence ==
    (stage = "Animation" /\ script[1].runs > 0 /\ script[1].held \in {"Idle", "Run"}) =>
        /\ script[1].vel[2] > 0 => player[1][1].animation = "Jump"
        /\ script[1].vel[2] < 0 => player[1][1].animation = "Fall"

\* ---------------------------------------------------------------------- C30
\* C30: after two or more runs of player_animation_update in a row during which
\* the velocity was (0,0) the state is Idle, whatever state the first of these
\* runs started in.
C30_AnimationSettles ==
    (stage = "Animation" /\ script[1].still >= 2) => player[1][1].animation = "Idle"

\* Witness: the second run in a row with velocity (0,0) started in Fall, which the
\* first of them can only have reached from Jump, and the state is Idle.
C30_Witness ==
    /\ stage = "Animation"
    /\ script[1].still = 2
    /\ script[1].held = "Fall"
    /\ player[1][1].animation = "Idle"

====
